---- MODULE Spec2Model ----
(***************************************************************************)
(* Model of the memo application of src/main.py (class MemoApp and        *)
(* class CategoryDialog).                                                  *)
(*                                                                         *)
(* Strings are sequences of character codes, so that str.strip(), slicing  *)
(* and Python's ordering of strings are modelled by what they do.  The     *)
(* dict self.memos is a sequence of records in insertion order (a Python   *)
(* dict keeps insertion order; assigning to an existing key keeps the      *)
(* key's place).                                                           *)
(***************************************************************************)
EXTENDS Integers, Sequences, FiniteSets, TLC

VARIABLES
    memos,            \* self.memos: <<[id, title, content, category, timestamp], ...>>
    categories,       \* self.categories
    file,             \* the data file memos.json
    current_memo_id,  \* self.current_memo_id
    is_modified,      \* self.is_modified
    sort_key,         \* self.sort_key
    sort_reverse,     \* self.sort_reverse
    title_entry,      \* text of self.title_entry
    content_text,     \* text of self.content_text (without the widget's final newline)
    category_var,     \* self.category_var
    list_attr,        \* rows of self.list_attr
    list_title,       \* rows of self.list_title
    list_time,        \* rows of self.list_time
    curselection,     \* selected rows of each of the three listboxes
    clock,            \* index of the last instant datetime.now() returned
    dialog,           \* the CategoryDialog that edit_categories waits for
    op,               \* the last handler that ran, its prompt answer and its outcome
    events            \* number of events root.mainloop() has dispatched

vars == <<memos, categories, file, current_memo_id, is_modified, sort_key,
          sort_reverse, title_entry, content_text, category_var, list_attr,
          list_title, list_time, curselection, clock, dialog, op, events>>

-----------------------------------------------------------------------------
(* Bounds of the model *)

\* datetime.now() is read at most MaxClock times after startup
MaxClock == 3

\* root.mainloop() dispatches at most MaxEvents events
MaxEvents == 4

-----------------------------------------------------------------------------
(* Strings *)

\* the empty string ""
EmptyStr == <<>>

\* None as the value of current_memo_id: no memo id is empty (an id is 20 digits)
None == <<>>

\* characters str.strip() removes: tab, newline, space
Whitespace == {9, 10, 32}

RECURSIVE lstrip(_)
lstrip(s) ==
    IF s # <<>> /\ Head(s) \in Whitespace THEN lstrip(Tail(s)) ELSE s

RECURSIVE rstrip(_)
rstrip(s) ==
    IF s # <<>> /\ s[Len(s)] \in Whitespace
    THEN rstrip(SubSeq(s, 1, Len(s) - 1))
    ELSE s

\* a strip that removes nothing
strip_Nothing(s) == s

strip(s) == rstrip(lstrip(s))

\* Python's a < b on str: by code point, a proper prefix first
RECURSIVE StrLess(_, _)
StrLess(a, b) ==
    IF b = <<>> THEN FALSE
    ELSE IF a = <<>> THEN TRUE
    ELSE IF Head(a) # Head(b) THEN Head(a) < Head(b)
    ELSE StrLess(Tail(a), Tail(b))

\* Python's a < b on tuples of str
RECURSIVE TupleLess(_, _)
TupleLess(a, b) ==
    IF b = <<>> THEN FALSE
    ELSE IF a = <<>> THEN TRUE
    ELSE IF Head(a) # Head(b) THEN StrLess(Head(a), Head(b))
    ELSE TupleLess(Tail(a), Tail(b))

-----------------------------------------------------------------------------
(* The clock: datetime.now() and its two strftime formats *)

D2(n) == <<48 + (n \div 10), 48 + (n % 10)>>
D4(n) == D2(n \div 100) \o D2(n % 100)
D6(n) == D2(n \div 10000) \o D4(n % 10000)

\* The k-th instant the clock can show.  Three instants a year, on 31 December:
\* 23:58:30.000000, 23:58:30.000001 (the same second) and 23:59:00.000000.
Instant(k) ==
    LET j == (k - 1) % 3 IN
    [Y  |-> 2025 + ((k - 1) \div 3), Mo |-> 12, D |-> 31, h |-> 23,
     mi |-> IF j = 2 THEN 59 ELSE 58,
     s  |-> IF j = 2 THEN 0 ELSE 30,
     us |-> IF j = 1 THEN 1 ELSE 0]

\* strftime("%Y-%m-%d %H:%M:%S")
Timestamp(t) ==
    D4(t.Y) \o <<45>> \o D2(t.Mo) \o <<45>> \o D2(t.D) \o <<32>> \o
    D2(t.h) \o <<58>> \o D2(t.mi) \o <<58>> \o D2(t.s)

\* strftime("%Y%m%d%H%M%S%f")
MemoId(t) ==
    D4(t.Y) \o D2(t.Mo) \o D2(t.D) \o D2(t.h) \o D2(t.mi) \o D2(t.s) \o D6(t.us)

-----------------------------------------------------------------------------
(* self.memos as a dict *)

Ids(ms) == {ms[i].id : i \in 1..Len(ms)}

IndexOf(ms, id) == CHOOSE i \in 1..Len(ms) : ms[i].id = id

Lookup(ms, id) == ms[IndexOf(ms, id)]

\* an assignment that always adds an entry
DictSet_AlwaysAppends(ms, memo) == Append(ms, memo)

\* self.memos[memo_id] = memo
DictSet(ms, memo) ==
    IF memo.id \in Ids(ms)
    THEN [ms EXCEPT ![IndexOf(ms, memo.id)] = memo]
    ELSE Append(ms, memo)

-----------------------------------------------------------------------------
(* get_sorted_memos and refresh_memo_list *)

SortTuple(m, key) ==
    IF key = "category" THEN <<m.category, m.timestamp>>
    ELSE IF key = "title" THEN <<m.title, m.timestamp>>
    ELSE <<m.timestamp>>

\* x goes before y in the sorted list only when it must
Precedes(x, y, key, reverse) ==
    IF reverse
    THEN TupleLess(SortTuple(y, key), SortTuple(x, key))
    ELSE TupleLess(SortTuple(x, key), SortTuple(y, key))

\* list.sort is stable, also with reverse=True: x is put after every element it
\* does not strictly precede
RECURSIVE Insert(_, _, _, _)
Insert(x, s, key, reverse) ==
    IF s = <<>> THEN <<x>>
    ELSE IF Precedes(x, Head(s), key, reverse) THEN <<x>> \o s
    ELSE <<Head(s)>> \o Insert(x, Tail(s), key, reverse)

RECURSIVE ListSort(_, _, _)
ListSort(s, key, reverse) ==
    IF s = <<>> THEN <<>>
    ELSE Insert(s[Len(s)], ListSort(SubSeq(s, 1, Len(s) - 1), key, reverse), key, reverse)

Reverse(s) == [i \in 1..Len(s) |-> s[Len(s) + 1 - i]]

\* a descending sort written as the ascending sort turned round
get_sorted_memos_Reversed(ms, key, reverse) ==
    IF reverse THEN Reverse(ListSort(ms, key, FALSE)) ELSE ListSort(ms, key, FALSE)

get_sorted_memos(ms, key, reverse) == ListSort(ms, key, reverse)

\* timestamp[5:16] if len(timestamp) >= 16 else timestamp
time_display(timestamp) ==
    IF Len(timestamp) >= 16 THEN SubSeq(timestamp, 6, 16) ELSE timestamp

\* the rows refresh_memo_list puts into the three listboxes
refresh_memo_list(ms, key, reverse) ==
    LET sorted_memos == get_sorted_memos(ms, key, reverse) IN
    [attr  |-> [i \in 1..Len(sorted_memos) |-> sorted_memos[i].category],
     title |-> [i \in 1..Len(sorted_memos) |-> sorted_memos[i].title],
     time  |-> [i \in 1..Len(sorted_memos) |-> time_display(sorted_memos[i].timestamp)]]

Listboxes == {"list_attr", "list_title", "list_time"}

\* lb.delete(0, tk.END) leaves a listbox without a selection
NoSelection == [lb \in Listboxes |-> {}]

-----------------------------------------------------------------------------
(* The data file: json.dump and json.load *)

\* A JSON object is the sequence of its members <<name, value>>, as written.
Has(obj, name) == \E i \in 1..Len(obj) : obj[i][1] = name

\* json.load keeps the last member of a name
Member(obj, name) ==
    obj[CHOOSE i \in 1..Len(obj) :
            /\ obj[i][1] = name
            /\ \A j \in (i + 1)..Len(obj) : obj[j][1] # name][2]

\* dict.get(name, default)
Get(obj, name, default) == IF Has(obj, name) THEN Member(obj, name) ELSE default

NoFile == [kind |-> "absent", memos |-> <<>>, categories |-> <<>>]

\* a file json.load raises on (truncated by a write that failed half way)
CorruptFile == [kind |-> "corrupt", memos |-> <<>>, categories |-> <<>>]

\* json.dump that leaves the category out of each memo
json_dump_NoCategory(ms, cats) ==
    [kind       |-> "json",
     memos      |-> [i \in 1..Len(ms) |->
                        <<ms[i].id, << <<"title", ms[i].title>>,
                                       <<"content", ms[i].content>>,
                                       <<"timestamp", ms[i].timestamp>> >> >>],
     categories |-> cats]

\* json.dump({"memos": self.memos, "categories": self.categories}, f)
json_dump(ms, cats) ==
    [kind       |-> "json",
     memos      |-> [i \in 1..Len(ms) |->
                        <<ms[i].id, << <<"title", ms[i].title>>,
                                       <<"content", ms[i].content>>,
                                       <<"category", ms[i].category>>,
                                       <<"timestamp", ms[i].timestamp>> >> >>],
     categories |-> cats]

\* load_data: the file's memos and categories, {} and [] when the file is absent or
\* cannot be decoded; a memo without "category" gets the category ""
load_data(f) ==
    IF f.kind = "json"
    THEN [memos |-> [i \in 1..Len(f.memos) |->
                        LET obj == f.memos[i][2] IN
                        [id        |-> f.memos[i][1],
                         title     |-> Get(obj, "title", EmptyStr),
                         content   |-> Get(obj, "content", EmptyStr),
                         category  |-> Get(obj, "category", EmptyStr),
                         timestamp |-> Get(obj, "timestamp", EmptyStr)]],
          categories |-> f.categories]
    ELSE [memos |-> <<>>, categories |-> <<>>]

\* what can become of a write: done, open() raises, json.dump raises after open()
\* has truncated the file
WriteOutcomes == {"ok", "fail_open", "fail_write"}

\* save_data: the file afterwards (an exception is caught and reported)
save_data(ms, cats, w) ==
    IF w = "ok" THEN json_dump(ms, cats)
    ELSE IF w = "fail_open" THEN file
    ELSE CorruptFile

-----------------------------------------------------------------------------
(* What the user can enter *)

\* " ", "a", " b "
TitleInputs == {<<32>>, <<97>>, <<32, 98, 32>>}

\* "x", "y\n"
ContentInputs == {<<120>>, <<121, 10>>}

\* "" (or Cancel), " ", "p", " q"
CategoryNameInputs == {<<>>, <<32>>, <<112>>, <<32, 113>>}

\* askyesnocancel: None, True, False
Answers == {"cancel", "yes", "no"}

Op(name, answer, result, row, write) ==
    [name |-> name, answer |-> answer, result |-> result, row |-> row, write |-> write]

NoDialog == [open |-> FALSE, categories |-> <<>>, origin |-> <<>>]

\* values of the category combobox
category_combo_values == <<EmptyStr>> \o categories

-----------------------------------------------------------------------------
(* Startup *)

OldMemo(t, title, content) ==
    <<MemoId(t), << <<"title", title>>, <<"content", content>>,
                    <<"timestamp", Timestamp(t)>> >> >>

\* a file of the version that had no categories
OldFile ==
    [kind |-> "json", memos |-> <<OldMemo(Instant(-2), <<97>>, <<120>>)>>,
     categories |-> <<>>]

\* a file this version wrote: two memos of the same second, two categories
TwoMemosFile ==
    json_dump(<<[id |-> MemoId(Instant(-2)), title |-> <<98>>, content |-> <<120>>,
                 category |-> <<112>>, timestamp |-> Timestamp(Instant(-2))],
                [id |-> MemoId(Instant(-1)), title |-> <<97>>, content |-> <<121>>,
                 category |-> <<113>>, timestamp |-> Timestamp(Instant(-1))]>>,
              <<<<112>>, <<113>>>>)

InitialFiles == {NoFile, CorruptFile, OldFile, TwoMemosFile}

\* MemoApp.__init__
Init ==
    \E f \in InitialFiles :
        LET data == load_data(f)
            rows == refresh_memo_list(data.memos, "timestamp", TRUE)
        IN
        /\ file = f
        /\ memos = data.memos
        /\ categories = data.categories
        /\ current_memo_id = None
        /\ is_modified = FALSE
        /\ sort_key = "timestamp"
        /\ sort_reverse = TRUE
        /\ title_entry = EmptyStr
        /\ content_text = EmptyStr
        /\ category_var = EmptyStr
        /\ list_attr = rows.attr
        /\ list_title = rows.title
        /\ list_time = rows.time
        /\ curselection = NoSelection
        /\ clock = 0
        /\ dialog = NoDialog
        /\ op = Op("__init__", "none", "done", 0, "none")
        /\ events = 0

-----------------------------------------------------------------------------
(* root.mainloop(): one event is dispatched to its handler at a time *)

Dispatch ==
    /\ events < MaxEvents
    /\ events' = events + 1

-----------------------------------------------------------------------------
(* Editing *)

\* <KeyRelease> in the title entry
on_content_change_title ==
    /\ ~dialog.open
    /\ Dispatch
    /\ \E s \in TitleInputs : title_entry' = s
    /\ is_modified' = TRUE
    /\ op' = Op("on_content_change", "none", "done", 0, "none")
    /\ UNCHANGED <<memos, categories, file, current_memo_id, sort_key, sort_reverse,
                   content_text, category_var, list_attr, list_title, list_time,
                   curselection, clock, dialog>>

\* <KeyRelease> in the content text
on_content_change_content ==
    /\ ~dialog.open
    /\ Dispatch
    /\ \E s \in ContentInputs : content_text' = s
    /\ is_modified' = TRUE
    /\ op' = Op("on_content_change", "none", "done", 0, "none")
    /\ UNCHANGED <<memos, categories, file, current_memo_id, sort_key, sort_reverse,
                   title_entry, category_var, list_attr, list_title, list_time,
                   curselection, clock, dialog>>

\* <<ComboboxSelected>>
on_category_change ==
    /\ ~dialog.open
    /\ Dispatch
    /\ \E i \in 1..Len(category_combo_values) : category_var' = category_combo_values[i]
    /\ is_modified' = TRUE
    /\ op' = Op("on_category_change", "none", "done", 0, "none")
    /\ UNCHANGED <<memos, categories, file, current_memo_id, sort_key, sort_reverse,
                   title_entry, content_text, list_attr, list_title, list_time,
                   curselection, clock, dialog>>

-----------------------------------------------------------------------------
(* save_current_memo *)

\* the state a successful save leaves: the memo stored, the file written, the
\* three lists rebuilt
Saved(memo_id, k, w) ==
    LET memo == [id        |-> memo_id,
                 title     |-> strip(title_entry),
                 content   |-> strip(content_text \o <<10>>),
                 category  |-> category_var,
                 timestamp |-> Timestamp(Instant(k))]
        ms == DictSet(memos, memo)
    IN
    [result          |-> TRUE,
     memos           |-> ms,
     file            |-> save_data(ms, categories, w),
     current_memo_id |-> memo_id,
     rows            |-> refresh_memo_list(ms, sort_key, sort_reverse),
     curselection    |-> NoSelection,
     clock           |-> k,
     is_modified     |-> FALSE,
     write           |-> w]

\* the state a rejected save leaves, which is the state as it is
Rejected ==
    [result          |-> FALSE,
     memos           |-> memos,
     file            |-> file,
     current_memo_id |-> current_memo_id,
     rows            |-> [attr |-> list_attr, title |-> list_title, time |-> list_time],
     curselection    |-> curselection,
     clock           |-> clock,
     is_modified     |-> is_modified,
     write           |-> "none"]

\* every way save_current_memo can end from the current state
save_current_memo_outcomes ==
    IF strip(title_entry) = EmptyStr \/ strip(content_text \o <<10>>) = EmptyStr
    THEN {Rejected}
    ELSE IF current_memo_id = None
    THEN UNION {{Saved(MemoId(Instant(k1)), k2, w) :
                    k2 \in k1..MaxClock, w \in WriteOutcomes} :
                k1 \in (clock + 1)..MaxClock}
    ELSE {Saved(current_memo_id, k2, w) :
             k2 \in (clock + 1)..MaxClock, w \in WriteOutcomes}

\* the save button and Ctrl+S
save_current_memo ==
    /\ ~dialog.open
    /\ Dispatch
    /\ \E r \in save_current_memo_outcomes :
        /\ memos' = r.memos
        /\ file' = r.file
        /\ current_memo_id' = r.current_memo_id
        /\ list_attr' = r.rows.attr
        /\ list_title' = r.rows.title
        /\ list_time' = r.rows.time
        /\ curselection' = r.curselection
        /\ clock' = r.clock
        /\ is_modified' = r.is_modified
        /\ op' = Op("save_current_memo", "none",
                    IF r.result THEN "saved" ELSE "rejected", 0, r.write)
    /\ UNCHANGED <<categories, sort_key, sort_reverse, title_entry, content_text,
                   category_var, dialog>>

-----------------------------------------------------------------------------
(* create_new_memo *)

\* create_new_memo without the return on Cancel: the fields are cleared all the same
create_new_memo_IgnoresCancel ==
    /\ ~dialog.open
    /\ Dispatch
    /\ UNCHANGED <<categories, sort_key, sort_reverse, dialog>>
    /\ \E answer \in (IF is_modified THEN Answers ELSE {"none"}) :
        \E r \in (IF answer = "yes" THEN save_current_memo_outcomes ELSE {Rejected}) :
            /\ memos' = r.memos
            /\ file' = r.file
            /\ list_attr' = r.rows.attr
            /\ list_title' = r.rows.title
            /\ list_time' = r.rows.time
            /\ curselection' = r.curselection
            /\ clock' = r.clock
            /\ IF answer = "yes" /\ ~r.result
               THEN /\ op' = Op("create_new_memo", answer, "save_failed", 0, r.write)
                    /\ UNCHANGED <<current_memo_id, is_modified, title_entry,
                                   content_text, category_var>>
               ELSE /\ title_entry' = EmptyStr
                    /\ content_text' = EmptyStr
                    /\ category_var' = EmptyStr
                    /\ current_memo_id' = None
                    /\ is_modified' = FALSE
                    /\ op' = Op("create_new_memo", answer,
                                IF answer = "cancel" THEN "cancelled" ELSE "cleared",
                                0, r.write)

\* the "new" button
create_new_memo ==
    /\ ~dialog.open
    /\ Dispatch
    /\ UNCHANGED <<categories, sort_key, sort_reverse, dialog>>
    /\ \E answer \in (IF is_modified THEN Answers ELSE {"none"}) :
        IF answer = "cancel"
        THEN /\ op' = Op("create_new_memo", answer, "cancelled", 0, "none")
             /\ UNCHANGED <<memos, file, current_memo_id, is_modified, title_entry,
                            content_text, category_var, list_attr, list_title,
                            list_time, curselection, clock>>
        ELSE \E r \in (IF answer = "yes" THEN save_current_memo_outcomes ELSE {Rejected}) :
            /\ memos' = r.memos
            /\ file' = r.file
            /\ list_attr' = r.rows.attr
            /\ list_title' = r.rows.title
            /\ list_time' = r.rows.time
            /\ curselection' = r.curselection
            /\ clock' = r.clock
            /\ IF answer = "yes" /\ ~r.result
               THEN /\ op' = Op("create_new_memo", answer, "save_failed", 0, r.write)
                    /\ UNCHANGED <<current_memo_id, is_modified, title_entry,
                                   content_text, category_var>>
               ELSE \* clear_fields
                    /\ title_entry' = EmptyStr
                    /\ content_text' = EmptyStr
                    /\ category_var' = EmptyStr
                    /\ current_memo_id' = None
                    /\ is_modified' = FALSE
                    /\ op' = Op("create_new_memo", answer, "cleared", 0, r.write)

-----------------------------------------------------------------------------
(* on_memo_select *)

\* the handler without its loop over the other listboxes
SyncSelection_OnlyClicked(lb, index) == [curselection EXCEPT ![lb] = {index}]

\* the selections after a click on row index of listbox lb: Tk (browse mode) has
\* selected the row in lb, the handler clears the two other listboxes' selections
\* and selects the row in them
SyncSelection(lb, index) == [other \in Listboxes |-> {index}]

\* <<ListboxSelect>> on one of the three listboxes
on_memo_select ==
    /\ ~dialog.open
    /\ Dispatch
    /\ UNCHANGED <<categories, sort_key, sort_reverse, dialog>>
    /\ \E lb \in Listboxes :
        IF Len(list_title) = 0
        THEN \* a click into an empty listbox: lb.curselection() is empty
             /\ op' = Op("on_memo_select", "none", "no_selection", 0, "none")
             /\ UNCHANGED <<memos, file, current_memo_id, is_modified, title_entry,
                            content_text, category_var, list_attr, list_title,
                            list_time, curselection, clock>>
        ELSE \E index \in 1..Len(list_title) :
             LET sorted_memos == get_sorted_memos(memos, sort_key, sort_reverse) IN
             IF index > Len(sorted_memos)
             THEN /\ op' = Op("on_memo_select", "none", "out_of_range", index, "none")
                  /\ curselection' = SyncSelection(lb, index)
                  /\ UNCHANGED <<memos, file, current_memo_id, is_modified, title_entry,
                                 content_text, category_var, list_attr, list_title,
                                 list_time, clock>>
             ELSE \E answer \in (IF is_modified THEN Answers ELSE {"none"}) :
                 IF answer = "cancel"
                 THEN /\ op' = Op("on_memo_select", answer, "cancelled", index, "none")
                      /\ curselection' = SyncSelection(lb, index)
                      /\ UNCHANGED <<memos, file, current_memo_id, is_modified,
                                     title_entry, content_text, category_var, list_attr,
                                     list_title, list_time, clock>>
                 ELSE \E r \in (IF answer = "yes" THEN save_current_memo_outcomes
                                                  ELSE {Rejected}) :
                     /\ memos' = r.memos
                     /\ file' = r.file
                     /\ list_attr' = r.rows.attr
                     /\ list_title' = r.rows.title
                     /\ list_time' = r.rows.time
                     /\ clock' = r.clock
                     \* a successful save has rebuilt the lists: no row is selected
                     /\ curselection' = IF r.result THEN r.curselection
                                                    ELSE SyncSelection(lb, index)
                     /\ IF answer = "yes" /\ ~r.result
                        THEN /\ op' = Op("on_memo_select", answer, "save_failed", index,
                                         r.write)
                             /\ UNCHANGED <<current_memo_id, is_modified, title_entry,
                                            content_text, category_var>>
                        ELSE \* the memo is taken from the list sorted before the prompt
                             LET memo == sorted_memos[index] IN
                             /\ current_memo_id' = memo.id
                             /\ title_entry' = memo.title
                             /\ content_text' = memo.content
                             /\ category_var' = memo.category
                             /\ is_modified' = FALSE
                             /\ op' = Op("on_memo_select", answer, "loaded", index,
                                         r.write)

-----------------------------------------------------------------------------
(* delete_memo *)

\* the "delete" button: self.memo_listbox is no attribute of MemoApp, so the first
\* statement raises AttributeError, which Tk reports and drops
delete_memo ==
    /\ ~dialog.open
    /\ Dispatch
    /\ op' = Op("delete_memo", "none", "AttributeError", 0, "none")
    /\ UNCHANGED <<memos, categories, file, current_memo_id, is_modified, sort_key,
                   sort_reverse, title_entry, content_text, category_var, list_attr,
                   list_title, list_time, curselection, clock, dialog>>

-----------------------------------------------------------------------------
(* change_sort *)

SortKeys == {"category", "title", "timestamp"}

\* change_sort without the call of refresh_memo_list
change_sort_NoRefresh ==
    /\ ~dialog.open
    /\ Dispatch
    /\ \E key \in SortKeys :
        /\ sort_key' = key
        /\ sort_reverse' = IF sort_key = key THEN ~sort_reverse
                           ELSE (key \notin {"category", "title"})
    /\ op' = Op("change_sort", "none", "done", 0, "none")
    /\ UNCHANGED <<memos, categories, file, current_memo_id, is_modified, title_entry,
                   content_text, category_var, list_attr, list_title, list_time,
                   curselection, clock, dialog>>

\* the three sort buttons
change_sort ==
    /\ ~dialog.open
    /\ Dispatch
    /\ \E key \in SortKeys :
        LET reverse == IF sort_key = key THEN ~sort_reverse
                       ELSE (key \notin {"category", "title"})
            rows == refresh_memo_list(memos, key, reverse)
        IN
        /\ sort_key' = key
        /\ sort_reverse' = reverse
        /\ list_attr' = rows.attr
        /\ list_title' = rows.title
        /\ list_time' = rows.time
        /\ curselection' = NoSelection
    /\ op' = Op("change_sort", "none", "done", 0, "none")
    /\ UNCHANGED <<memos, categories, file, current_memo_id, is_modified, title_entry,
                   content_text, category_var, clock, dialog>>

-----------------------------------------------------------------------------
(* CategoryDialog and edit_categories *)

Range(s) == {s[i] : i \in 1..Len(s)}

Remove(s, i) == [j \in 1..(Len(s) - 1) |-> IF j < i THEN s[j] ELSE s[j + 1]]

\* the "edit categories" button: the dialog opens on a copy of self.categories and
\* edit_categories waits for it.  origin[p] is the place in self.categories the
\* dialog's p-th entry comes from, 0 for an entry added in the dialog.
edit_categories_open ==
    /\ ~dialog.open
    /\ Dispatch
    /\ dialog' = [open |-> TRUE, categories |-> categories,
                  origin |-> [i \in 1..Len(categories) |-> i]]
    /\ op' = Op("edit_categories", "none", "opened", 0, "none")
    /\ UNCHANGED <<memos, categories, file, current_memo_id, is_modified, sort_key,
                   sort_reverse, title_entry, content_text, category_var, list_attr,
                   list_title, list_time, curselection, clock>>

\* CategoryDialog.add_category
add_category ==
    /\ dialog.open
    /\ Dispatch
    /\ \E input \in CategoryNameInputs :
        LET name == strip(input) IN
        IF input # EmptyStr /\ name # EmptyStr /\ name \notin Range(dialog.categories)
        THEN /\ dialog' = [dialog EXCEPT !.categories = Append(@, name),
                                         !.origin = Append(@, 0)]
             /\ op' = Op("add_category", "none", "added", 0, "none")
        ELSE /\ dialog' = dialog
             /\ op' = Op("add_category", "none", "ignored", 0, "none")
    /\ UNCHANGED <<memos, categories, file, current_memo_id, is_modified, sort_key,
                   sort_reverse, title_entry, content_text, category_var, list_attr,
                   list_title, list_time, curselection, clock>>

\* CategoryDialog.rename_category; row 0 stands for no row selected
rename_category ==
    /\ dialog.open
    /\ Dispatch
    /\ \E row \in 0..Len(dialog.categories), input \in CategoryNameInputs :
        LET new_name == strip(input) IN
        IF /\ row # 0
           /\ input # EmptyStr
           /\ new_name # EmptyStr
           /\ new_name # dialog.categories[row]
           /\ new_name \notin Range(dialog.categories)
        THEN /\ dialog' = [dialog EXCEPT !.categories[row] = new_name]
             /\ op' = Op("rename_category", "none", "renamed", 0, "none")
        ELSE /\ dialog' = dialog
             /\ op' = Op("rename_category", "none", "ignored", 0, "none")
    /\ UNCHANGED <<memos, categories, file, current_memo_id, is_modified, sort_key,
                   sort_reverse, title_entry, content_text, category_var, list_attr,
                   list_title, list_time, curselection, clock>>

\* CategoryDialog.delete_category; row 0 stands for no row selected
delete_category ==
    /\ dialog.open
    /\ Dispatch
    /\ \E row \in 0..Len(dialog.categories), answer \in {"yes", "no"} :
        IF row # 0 /\ answer = "yes"
        THEN /\ dialog' = [dialog EXCEPT !.categories = Remove(@, row),
                                         !.origin = Remove(@, row)]
             /\ op' = Op("delete_category", "none", "deleted", 0, "none")
        ELSE /\ dialog' = dialog
             /\ op' = Op("delete_category", "none", "ignored", 0, "none")
    /\ UNCHANGED <<memos, categories, file, current_memo_id, is_modified, sort_key,
                   sort_reverse, title_entry, content_text, category_var, list_attr,
                   list_title, list_time, curselection, clock>>

\* the dialog is closed by its window button: dialog.result stays None and
\* edit_categories does nothing
edit_categories_closed ==
    /\ dialog.open
    /\ Dispatch
    /\ dialog' = NoDialog
    /\ op' = Op("edit_categories", "none", "closed", 0, "none")
    /\ UNCHANGED <<memos, categories, file, current_memo_id, is_modified, sort_key,
                   sort_reverse, title_entry, content_text, category_var, list_attr,
                   list_title, list_time, curselection, clock>>

\* old_to_new[old_categories[i]] = self.categories[i] for the places i both lists have
InOldToNew(c, old, new) ==
    \E i \in 1..Len(old) : i <= Len(new) /\ old[i] = c

\* a later place of the same old name overwrites an earlier one
OldToNew(c, old, new) ==
    new[CHOOSE i \in 1..Len(old) :
            /\ i <= Len(new)
            /\ old[i] = c
            /\ \A j \in (i + 1)..Len(old) : ~(j <= Len(new) /\ old[j] = c)]

\* the category edit_categories gives a memo of category c
Retag(c, old, new) ==
    IF InOldToNew(c, old, new) THEN OldToNew(c, old, new)
    ELSE IF c \notin Range(new) THEN EmptyStr
    ELSE c

\* CategoryDialog.on_ok and the rest of edit_categories
edit_categories_ok ==
    /\ dialog.open
    /\ Dispatch
    /\ \E w \in WriteOutcomes :
        LET old_categories == categories
            new_categories == dialog.categories
            ms == [i \in 1..Len(memos) |->
                     [memos[i] EXCEPT !.category = Retag(@, old_categories, new_categories)]]
            rows == refresh_memo_list(ms, sort_key, sort_reverse)
        IN
        /\ categories' = new_categories
        /\ memos' = ms
        /\ file' = save_data(ms, new_categories, w)
        /\ list_attr' = rows.attr
        /\ list_title' = rows.title
        /\ list_time' = rows.time
        /\ curselection' = NoSelection
        /\ op' = Op("edit_categories", "none", "ok", 0, w)
    /\ dialog' = NoDialog
    /\ UNCHANGED <<current_memo_id, is_modified, sort_key, sort_reverse, title_entry,
                   content_text, category_var, clock>>

-----------------------------------------------------------------------------

Next ==
    \/ on_content_change_title
    \/ on_content_change_content
    \/ on_category_change
    \/ save_current_memo
    \/ create_new_memo
    \/ on_memo_select
    \/ delete_memo
    \/ change_sort
    \/ edit_categories_open
    \/ add_category
    \/ rename_category
    \/ delete_category
    \/ edit_categories_closed
    \/ edit_categories_ok

Spec == Init /\ [][Next]_vars

-----------------------------------------------------------------------------
(* get_sorted_memos on its own: every insertion order of up to MaxSortLen memos *)

MaxSortLen == 3

SortMemo(k, title, category) ==
    [id |-> MemoId(Instant(k)), title |-> title, content |-> <<120>>,
     category |-> category, timestamp |-> Timestamp(Instant(k))]

\* the first two are equal on every sort key, the fourth and fifth share a timestamp
SortMemos ==
    {SortMemo(-2, <<98>>, <<112>>), SortMemo(-1, <<98>>, <<112>>),
     SortMemo(0, <<97>>, EmptyStr), SortMemo(1, <<97>>, <<113>>),
     SortMemo(2, <<98>>, <<113>>), SortMemo(3, <<97, 97>>, <<112>>)}

SortInputs ==
    {ms \in UNION {[1..n -> SortMemos] : n \in 0..MaxSortLen} :
        \A i, j \in 1..Len(ms) : i # j => ms[i].id # ms[j].id}

SortInit ==
    \E ms \in SortInputs, key \in SortKeys, reverse \in BOOLEAN :
        LET rows == refresh_memo_list(ms, key, reverse) IN
        /\ memos = ms
        /\ sort_key = key
        /\ sort_reverse = reverse
        /\ list_attr = rows.attr
        /\ list_title = rows.title
        /\ list_time = rows.time
        /\ file = json_dump(ms, <<>>)
        /\ categories = <<>>
        /\ current_memo_id = None
        /\ is_modified = FALSE
        /\ title_entry = EmptyStr
        /\ content_text = EmptyStr
        /\ category_var = EmptyStr
        /\ curselection = NoSelection
        /\ clock = 3
        /\ dialog = NoDialog
        /\ op = Op("__init__", "none", "done", 0, "none")
        /\ events = 0

SortNext == change_sort

SortSpec == SortInit /\ [][SortNext]_vars

-----------------------------------------------------------------------------
(* Claims *)

Blank(s) == \A i \in 1..Len(s) : s[i] \in Whitespace

\* t is s without the whitespace at its two ends
IsStripped(s, t) ==
    IF Blank(s) THEN t = EmptyStr
    ELSE \E a, b \in 1..Len(s) :
            /\ a <= b
            /\ t = SubSeq(s, a, b)
            /\ s[a] \notin Whitespace
            /\ s[b] \notin Whitespace
            /\ \A i \in 1..Len(s) : (i < a \/ i > b) => s[i] \in Whitespace

Editor == <<title_entry, content_text, category_var>>

Lists == <<list_attr, list_title, list_time>>

\* C1: at every quiescent state the three listboxes have one row per memo of
\* self.memos, and row i of the three shows the category, the title and the shortened
\* timestamp of the i-th memo of get_sorted_memos() under the current sort_key and
\* sort_reverse.
C1_ListsShowSortedMemos ==
    LET sorted_memos == get_sorted_memos(memos, sort_key, sort_reverse) IN
    /\ Len(list_attr) = Len(memos)
    /\ Len(list_title) = Len(memos)
    /\ Len(list_time) = Len(memos)
    /\ Len(sorted_memos) = Len(memos)
    /\ \A i \in 1..Len(memos) :
        /\ list_attr[i] = sorted_memos[i].category
        /\ list_title[i] = sorted_memos[i].title
        /\ list_time[i] = time_display(sorted_memos[i].timestamp)

\* C1 witness: a third memo has been saved while the list is sorted by category
C1_Witness ==
    /\ op.name = "save_current_memo"
    /\ op.result = "saved"
    /\ Len(memos) >= 3
    /\ sort_key = "category"
    /\ list_time[1] # list_time[3]

\* C2: when on_memo_select loads the memo of the clicked row, current_memo_id is the
\* id of the memo shown at that row when it was clicked, is_modified is False and the
\* editor holds the title, content and category self.memos has for current_memo_id,
\* on every path through the prompt.
C2_SelectLoadsStoredMemo ==
    [][(op'.name = "on_memo_select" /\ op'.result = "loaded") =>
        LET shown == get_sorted_memos(memos, sort_key, sort_reverse)[op'.row] IN
        /\ current_memo_id' = shown.id
        /\ ~is_modified'
        /\ current_memo_id' \in Ids(memos')
        /\ title_entry' = Lookup(memos', current_memo_id').title
        /\ content_text' = Lookup(memos', current_memo_id').content
        /\ category_var' = Lookup(memos', current_memo_id').category]_vars

C4_StableSort ==
    LET sorted_memos == get_sorted_memos(memos, sort_key, sort_reverse)
        KeyOf(m) == IF sort_key = "category" THEN <<m.category, m.timestamp>>
                    ELSE IF sort_key = "title" THEN <<m.title, m.timestamp>>
                    ELSE <<m.timestamp>>
        Place(m) == CHOOSE i \in 1..Len(memos) : memos[i] = m
    IN
    /\ Len(sorted_memos) = Len(memos)
    /\ \A i \in 1..Len(memos) :
          Cardinality({j \in 1..Len(sorted_memos) : sorted_memos[j] = memos[i]}) = 1
    /\ \A i, j \in 1..Len(sorted_memos) : i < j =>
          /\ ~sort_reverse => ~TupleLess(KeyOf(sorted_memos[j]), KeyOf(sorted_memos[i]))
          /\ sort_reverse => ~TupleLess(KeyOf(sorted_memos[i]), KeyOf(sorted_memos[j]))
          /\ KeyOf(sorted_memos[i]) = KeyOf(sorted_memos[j]) =>
                Place(sorted_memos[i]) < Place(sorted_memos[j])

\* C4 witness: a descending sort by title of three memos, two of them equal on the
\* title and the timestamp
C4_Witness ==
    /\ op.name = "change_sort"
    /\ sort_key = "title"
    /\ sort_reverse
    /\ Len(memos) = 3
    /\ memos[1].title = memos[3].title
    /\ memos[1].timestamp = memos[3].timestamp
    /\ memos[2].title # memos[1].title

\* C5: an operation that changes self.memos or self.categories writes the data file,
\* as do a successful save_current_memo and a confirmed edit_categories; when the
\* write succeeds the file holds the memos and categories in memory, and load_data
\* of it gives them back.
C5_FileFollowsMemory ==
    [][/\ (memos' # memos \/ categories' # categories) => op'.write # "none"
       /\ (op'.name = "save_current_memo" /\ op'.result = "saved") => op'.write # "none"
       /\ (op'.name = "edit_categories" /\ op'.result = "ok") => op'.write # "none"
       /\ op'.write = "ok" =>
            /\ file'.kind = "json"
            /\ file'.categories = categories'
            /\ Len(file'.memos) = Len(memos')
            /\ \A i \in 1..Len(memos') :
                  /\ file'.memos[i][1] = memos'[i].id
                  /\ \A name \in {"title", "content", "category", "timestamp"} :
                        Has(file'.memos[i][2], name)
            /\ load_data(file') = [memos |-> memos', categories |-> categories']]_vars

\* C5 witness: a memo with a category has been saved and the file written
C5_Witness ==
    /\ op.name = "save_current_memo"
    /\ op.write = "ok"
    /\ current_memo_id # None
    /\ Lookup(memos, current_memo_id).category # EmptyStr

\* C6: the three listboxes always have the same selected rows; after on_memo_select
\* has handled a click on row i all three have exactly row i selected, or none has a
\* selection when the list was rebuilt by a save.
C6_SelectionInStep ==
    /\ \A lb \in Listboxes : curselection[lb] = curselection["list_title"]
    /\ (op.name = "on_memo_select" /\ op.row # 0) =>
          IF op.answer = "yes" /\ op.result = "loaded"
          THEN \A lb \in Listboxes : curselection[lb] = {}
          ELSE \A lb \in Listboxes : curselection[lb] = {op.row}

\* C6 witness: row 2 was clicked while row 1 was selected
C6_Witness ==
    /\ op.name = "on_memo_select"
    /\ op.row = 2
    /\ \A lb \in Listboxes : curselection[lb] = {2}

\* C7: save_current_memo with a non-blank title and content returns True; it adds one
\* memo under a new id when current_memo_id is None and otherwise overwrites the memo
\* of current_memo_id, leaves every other memo alone, stores the stripped title and
\* content and the editor's category, and ends with current_memo_id a key of
\* self.memos and is_modified False.
C7_SaveCreatesOrUpdatesOne ==
    [][/\ (/\ op'.name = "save_current_memo"
           /\ ~Blank(title_entry)
           /\ ~Blank(content_text)) =>
            /\ op'.result = "saved"
            /\ current_memo_id' \in Ids(memos')
            /\ ~is_modified'
            /\ IF current_memo_id = None
               THEN /\ Len(memos') = Len(memos) + 1
                    /\ current_memo_id' \notin Ids(memos)
                    /\ Ids(memos') = Ids(memos) \cup {current_memo_id'}
                    /\ \A i \in 1..Len(memos) : memos'[i] = memos[i]
               ELSE /\ current_memo_id' = current_memo_id
                    /\ Len(memos') = Len(memos)
                    /\ \A i \in 1..Len(memos) :
                          /\ memos'[i].id = memos[i].id
                          /\ memos[i].id # current_memo_id => memos'[i] = memos[i]
            /\ Cardinality({i \in 1..Len(memos') : memos'[i].id = current_memo_id'}) = 1
            /\ LET saved == Lookup(memos', current_memo_id') IN
               /\ IsStripped(title_entry, saved.title)
               /\ IsStripped(content_text, saved.content)
               /\ saved.category = category_var
       \* the save made for the answer Yes of a prompt stores one memo in the same way
       /\ (/\ op'.name \in {"create_new_memo", "on_memo_select"}
           /\ op'.answer = "yes"
           /\ op'.result \in {"cleared", "loaded"}) =>
            \E k \in 1..Len(memos') :
               /\ IsStripped(title_entry, memos'[k].title)
               /\ IsStripped(content_text, memos'[k].content)
               /\ memos'[k].category = category_var
               /\ IF current_memo_id = None
                  THEN k = Len(memos) + 1 /\ memos'[k].id \notin Ids(memos)
                  ELSE k <= Len(memos) /\ memos'[k].id = current_memo_id
               /\ Len(memos') = IF current_memo_id = None THEN Len(memos) + 1
                                                          ELSE Len(memos)
               /\ \A i \in 1..Len(memos) : i # k => memos'[i] = memos[i]]_vars

\* C7 witness: the memo that is open has been saved again, with other memos in the store
C7_Witness ==
    /\ op.name = "save_current_memo"
    /\ op.result = "saved"
    /\ Len(memos) >= 2
    /\ current_memo_id = memos[1].id
    /\ title_entry # memos[1].title

\* C8: save_current_memo with a blank title or a blank content returns False and
\* leaves self.memos, the data file, current_memo_id, is_modified, the editor and the
\* three lists unchanged.
C8_BlankIsRejected ==
    [][(/\ op'.name = "save_current_memo"
        /\ (Blank(title_entry) \/ Blank(content_text))) =>
        /\ op'.result = "rejected"
        /\ UNCHANGED <<memos, file, current_memo_id, is_modified, Editor, Lists>>]_vars

\* C8 witness: a save was refused for a title of one space, the content not blank
C8_Witness ==
    /\ op.name = "save_current_memo"
    /\ op.result = "rejected"
    /\ title_entry = <<32>>
    /\ ~Blank(content_text)

\* the category C9 gives a memo of category c when the open dialog is confirmed
C9_Expected(c) ==
    IF c = EmptyStr \/ c \notin Range(categories) THEN c
    ELSE LET j == CHOOSE i \in 1..Len(categories) : categories[i] = c IN
         IF \E p \in 1..Len(dialog.origin) : dialog.origin[p] = j
         THEN dialog.categories[CHOOSE p \in 1..Len(dialog.origin) : dialog.origin[p] = j]
         ELSE EmptyStr

\* C9: when the dialog is confirmed, a memo of a renamed category carries the new
\* name, a memo of a deleted category has the category "", and every other memo keeps
\* its category; when the dialog is closed without OK nothing changes and nothing is
\* written.
C9_RetagFollowsDialog ==
    [][/\ (op'.name = "edit_categories" /\ op'.result = "ok") =>
            /\ Len(memos') = Len(memos)
            /\ \A i \in 1..Len(memos) :
                  memos'[i].category = C9_Expected(memos[i].category)
       /\ (op'.name = "edit_categories" /\ op'.result = "closed") =>
            /\ UNCHANGED <<categories, memos, file>>
            /\ op'.write = "none"]_vars

====
